---- MODULE Spec2Model ----
(***************************************************************************)
(* Model of the client-side audio pipeline of the captioning tool:         *)
(* encodeWAV (resample channel 0 to 16 kHz, quantize to 16-bit PCM, write  *)
(* a 44-byte RIFF/WAVE header) from the caption service module, checked    *)
(* under Spec; and the application around it (handleGenerate, the stages   *)
(* of generateCaptions and extractAudioFromVideo, the file, transcript and *)
(* player handlers), checked under AppSpec.                                *)
(*                                                                         *)
(* Numbers.  A Float32Array element is modelled as an integer: k with     *)
(* |k| < 2^30 is the value k / Den, and the reserved code NaN is NaN.  The *)
(* result of an out-of-range typed-array read is the reserved code         *)
(* Undefined.                                                              *)
(* Den = 2^16, so every modelled value is a dyadic rational that a float32 *)
(* holds exactly, and its products with 0x8000 and 0x7FFF are exact in a   *)
(* double.  The sample rates of SampleRates other than 44100 give a ratio  *)
(* that is exact in a double; for 44100 no product or quotient within the  *)
(* modelled frame counts is closer than 1/882 to a rounding tie, so the    *)
(* rational arithmetic below rounds as the double arithmetic does.         *)
(***************************************************************************)
EXTENDS Integers, Sequences, FiniteSets, TLC

VARIABLES audioBuffer, wavBlob, pc

\* The encoder's input, output and position (Spec).
encVars == <<audioBuffer, wavBlob, pc>>

\* App state (useState of App), the VideoPlayer's currentCaption, the
\* environment's API key, and the invocations of handleGenerate.
\* captionsFile is a history variable: the file whose generation produced
\* the caption list now installed.
VARIABLES videoFile, captions, isProcessing, progressStatus, error,
          currentTime, currentCaption, apiKey, runs, captionsFile

appVars == <<videoFile, captions, isProcessing, progressStatus, error,
             currentTime, currentCaption, apiKey, runs, captionsFile>>

vars == <<audioBuffer, wavBlob, pc, videoFile, captions, isProcessing,
          progressStatus, error, currentTime, currentCaption, apiKey, runs,
          captionsFile>>

\* ------------------------------------------------------------------ bounds
MaxFrames == 3

\* ------------------------------------------------------- program constants
numChannels == 1
sampleRate == 16000
format == 1
bitDepth == 16
NegScale == 32768
PosScale == 32767
HeaderBytes == 44

\* ------------------------------------------------------------ number model
Den == 2^16

Num(k) == k
NaN == 2^30
Undefined == 2^30 + 1

\* ToNumber: undefined converts to NaN, a number to itself.
ToNumber(x) == IF x = Undefined THEN NaN ELSE x

\* Math.min(a, x) and Math.max(a, x) for an integer a: NaN if x is not a
\* number after conversion.
MathMin(a, x) ==
  LET y == ToNumber(x)
  IN  IF y = NaN THEN NaN
      ELSE IF y < a * Den THEN y ELSE Num(a * Den)

MathMax(a, x) ==
  LET y == ToNumber(x)
  IN  IF y = NaN THEN NaN
      ELSE IF y > a * Den THEN y ELSE Num(a * Den)

\* Variant of MathRound: Math.floor in place of Math.round.
MathRoundFloor(p, q) == p \div q

\* Math.round(p / q), q > 0: the nearest integer, ties toward +infinity.
MathRound(p, q) == (2 * p + q) \div (2 * q)

\* Variant of Truncate: rounds toward minus infinity.
TruncateFloor(p, q) == p \div q

\* Variant of Truncate: rounds to the nearest integer, ties upward.
TruncateNearest(p, q) == (p \div q) + (IF 2 * (p % q) >= q THEN 1 ELSE 0)

\* Truncation of p / q toward zero (q > 0), the first step of ToInt16.
Truncate(p, q) ==
  IF p >= 0 \/ p % q = 0 THEN p \div q ELSE (p \div q) + 1

\* Int16Array element store of the number p / q: truncate, reduce modulo
\* 2^16, read as two's complement.
ToInt16(p, q) ==
  LET m == Truncate(p, q) % 65536
  IN  IF m >= 32768 THEN m - 65536 ELSE m

\* ------------------------------------------------------------- AudioBuffer
\* Variant of getChannelData: reads the last channel whatever c is.
getChannelDataLast(buf, c) == buf.channels[Len(buf.channels)]

\* audioBuffer.getChannelData(c): channel c, as a sequence (index k of the
\* Float32Array is element k + 1).
getChannelData(buf, c) == buf.channels[c + 1]

\* Variant of ReadSample: an index past the end reads the last element.
ReadSampleClamped(oldData, offset) ==
  IF Len(oldData) = 0 THEN Undefined
  ELSE IF offset < Len(oldData) THEN oldData[offset + 1]
  ELSE oldData[Len(oldData)]

\* oldData[offset]: undefined outside the array.
ReadSample(oldData, offset) ==
  IF offset >= 0 /\ offset < Len(oldData) THEN oldData[offset + 1]
  ELSE Undefined

\* ---------------------------------------------------------------- encodeWAV
\* Variant of NewLength: never less than one sample.
NewLengthAtLeastOne(buf) ==
  LET n == MathRound(Len(getChannelData(buf, 0)) * sampleRate, buf.sampleRate)
  IN  IF n = 0 THEN 1 ELSE n

\* Math.round(oldData.length / ratio), ratio = originalSampleRate / sampleRate
NewLength(buf) ==
  MathRound(Len(getChannelData(buf, 0)) * sampleRate, buf.sampleRate)

\* Variant of Offset: counts output samples from one.
OffsetFromOne(buf, i) == MathRound((i + 1) * buf.sampleRate, sampleRate)

\* Math.round(i * ratio)
Offset(buf, i) == MathRound(i * buf.sampleRate, sampleRate)

\* Math.max(-1, Math.min(1, x))
Clamp(x) == MathMax(-1, MathMin(1, x))

\* Variant of Quantize: 0x7FFF for both signs.
QuantizeSymmetric(x) ==
  LET val == Clamp(x)
  IN  IF val = NaN THEN 0 ELSE ToInt16(val * PosScale, Den)

\* resultData[i] = val < 0 ? val * 0x8000 : val * 0x7FFF, stored in an
\* Int16Array; a NaN is stored as 0.
Quantize(x) ==
  LET val == Clamp(x)
  IN  IF val = NaN THEN 0
      ELSE IF val < 0 THEN ToInt16(val * NegScale, Den)
      ELSE ToInt16(val * PosScale, Den)

\* The Int16Array after the loop, as a sequence of newLength integers.
ResultData(buf) ==
  LET oldData == getChannelData(buf, 0)
      newLength == NewLength(buf)
  IN  SubSeq([k \in 1..newLength |->
                Quantize(ReadSample(oldData, Offset(buf, k - 1)))],
             1, newLength)

\* ---------------------------------------------------------------- DataView
\* A buffer of n bytes is a sequence of n values in 0..255; byte offset k is
\* element k + 1.
ZeroBuffer(n) == SubSeq([k \in 1..n |-> 0], 1, n)

setUint8(view, off, v) == [view EXCEPT ![off + 1] = v % 256]

\* Variant of setUint16: big-endian, as without the littleEndian argument.
setUint16BigEndian(view, off, v) ==
  LET u == v % 65536
  IN  setUint8(setUint8(view, off, u \div 256), off + 1, u % 256)

\* view.setUint16(off, v, true)
setUint16(view, off, v) ==
  LET u == v % 65536
  IN  setUint8(setUint8(view, off, u % 256), off + 1, u \div 256)

\* view.setUint32(off, v, true): the low 16 bits, then the next 16 bits of
\* v modulo 2^32.
setUint32(view, off, v) ==
  setUint16(setUint16(view, off, v % 65536), off + 2, (v \div 65536) % 65536)

\* writeString(view, offset, string): one setUint8 per character code.
RECURSIVE writeStringFrom(_, _, _, _)
writeStringFrom(view, off, str, i) ==
  IF i > Len(str) THEN view
  ELSE writeStringFrom(setUint8(view, off + i - 1, str[i]), off, str, i + 1)

writeString(view, off, str) == writeStringFrom(view, off, str, 1)

\* Character codes of the four chunk tags.
TagRIFF == <<82, 73, 70, 70>>
TagWAVE == <<87, 65, 86, 69>>
TagFmt == <<102, 109, 116, 32>>
TagData == <<100, 97, 116, 97>>

\* new Uint8Array(resultData.buffer): the bytes of the Int16Array, low byte
\* first (typed arrays use the platform byte order, little-endian on the
\* platforms browsers run on).
DataBytes(resultData) ==
  SubSeq([k \in 1..(2 * Len(resultData)) |->
            LET u == resultData[(k + 1) \div 2] % 65536
            IN  IF k % 2 = 1 THEN u % 256 ELSE u \div 256],
         1, 2 * Len(resultData))

\* new Uint8Array(buffer, 44).set(dataByteView)
SetPayload(view, data) ==
  SubSeq([k \in 1..Len(view) |->
            IF k > HeaderBytes /\ k - HeaderBytes <= Len(data)
            THEN data[k - HeaderBytes] ELSE view[k]],
         1, Len(view))

\* Variant of WriteHeader: the RIFF size field holds the whole file size.
WriteHeaderFileSize(view, byteLength) ==
  LET v1 == writeString(view, 0, TagRIFF)
      v2 == setUint32(v1, 4, 44 + byteLength)
      v3 == writeString(v2, 8, TagWAVE)
      v4 == writeString(v3, 12, TagFmt)
      v5 == setUint32(v4, 16, 16)
      v6 == setUint16(v5, 20, format)
      v7 == setUint16(v6, 22, numChannels)
      v8 == setUint32(v7, 24, sampleRate)
      v9 == setUint32(v8, 28, sampleRate * numChannels * (bitDepth \div 8))
      v10 == setUint16(v9, 32, numChannels * (bitDepth \div 8))
      v11 == setUint16(v10, 34, bitDepth)
      v12 == writeString(v11, 36, TagData)
  IN  setUint32(v12, 40, byteLength)

\* The header writes of encodeWAV, in source order.
WriteHeader(view, byteLength) ==
  LET v1 == writeString(view, 0, TagRIFF)
      v2 == setUint32(v1, 4, 36 + byteLength)
      v3 == writeString(v2, 8, TagWAVE)
      v4 == writeString(v3, 12, TagFmt)
      v5 == setUint32(v4, 16, 16)
      v6 == setUint16(v5, 20, format)
      v7 == setUint16(v6, 22, numChannels)
      v8 == setUint32(v7, 24, sampleRate)
      v9 == setUint32(v8, 28, sampleRate * numChannels * (bitDepth \div 8))
      v10 == setUint16(v9, 32, numChannels * (bitDepth \div 8))
      v11 == setUint16(v10, 34, bitDepth)
      v12 == writeString(v11, 36, TagData)
  IN  setUint32(v12, 40, byteLength)

\* encodeWAV(audioBuffer): the bytes of the returned Blob.
encodeWAV(buf) ==
  LET resultData == ResultData(buf)
      byteLength == 2 * Len(resultData)
      view == WriteHeader(ZeroBuffer(HeaderBytes + byteLength), byteLength)
  IN  SetPayload(view, DataBytes(resultData))

\* ------------------------------------------------------------------ inputs
SampleRates == {8000, 16000, 24000, 32000, 44100, 48000}

\* -2, -1, -3/65536, 0, 1/2, 1, 3/2 and NaN.
SampleValues ==
  {Num(-2 * Den), Num(-Den), Num(-3), Num(0), Num(Den \div 2), Num(Den),
   Num(3 * (Den \div 2)), NaN}

\* Contents of a second channel, all frames equal.
FillValues == {Num(Den), Num(-Den)}

RECURSIVE SeqsOfLen(_, _)
SeqsOfLen(S, n) ==
  IF n = 0 THEN {<<>>}
  ELSE {Append(s, x) : s \in SeqsOfLen(S, n - 1), x \in S}

Fill(n, x) == SubSeq([k \in 1..n |-> x], 1, n)

\* The decoded audio of scenario A: one channel, 48000 Hz, 48000 frames of
\* constant value 0.5.
ScenarioA ==
  [sampleRate |-> 48000, channels |-> <<Fill(48000, Num(Den \div 2))>>]

\* The channel lists over n frames: channel 0 alone, or channel 0 with a
\* second channel of the same length.
ChannelLists(n) ==
  UNION {{<<c0>>} \cup {<<c0, Fill(n, x)>> : x \in FillValues} :
           c0 \in SeqsOfLen(SampleValues, n)}

SmallBuffers ==
  {[sampleRate |-> r, channels |-> cs] :
     r \in SampleRates, cs \in UNION {ChannelLists(n) : n \in 0..MaxFrames}}

\* ------------------------------------------------------- App state values
\* No file selected (null), and no error (null).
NoFile == "null"
Null == "null"

\* The App component as mounted: the useState initial values.
AppMounted ==
  /\ videoFile = NoFile
  /\ captions = <<>>
  /\ isProcessing = FALSE
  /\ progressStatus = ""
  /\ error = Null
  /\ currentTime = 0
  /\ currentCaption = <<>>
  /\ runs = <<>>
  /\ captionsFile = NoFile

\* ----------------------------------------------------------- state machine
Init ==
  /\ audioBuffer \in SmallBuffers \cup {ScenarioA}
  /\ wavBlob = <<>>
  /\ pc = "compressing"
  /\ AppMounted
  /\ apiKey = TRUE

\* const wavBlob = encodeWAV(audioBuffer);
Compress ==
  /\ pc = "compressing"
  /\ wavBlob' = encodeWAV(audioBuffer)
  /\ pc' = "encoded"
  /\ UNCHANGED audioBuffer
  /\ UNCHANGED appVars

Next == Compress

Spec == Init /\ [][Next]_vars

\* ===================================================================== App
\* ------------------------------------------------------------------ bounds
\* Invocations of handleGenerate, and the last video time in seconds.
MaxRuns == 2
MaxTime == 2

\* ------------------------------------------------------------------ inputs
Files == {"a.mp4", "b.mp4"}

\* Messages of the errors the code constructs.
MsgApiKey == "API Key not found in environment variables"
MsgExtract ==
  "Failed to extract audio. The file might be corrupt or the format is unsupported."
MsgNoResponse == "No response from Gemini."
MsgFallback == "Failed to generate captions. Please try again."
MsgTooLarge == "File is too large. Max size is 500MB."
\* Messages of errors raised outside the code: a rejected generateContent
\* call and a JSON.parse failure.  A rejection value without a message (the
\* FileReader's error event) has message "".
MsgService == "fetch failed"
MsgRead == "The requested file could not be read"
MsgDecode == "Unable to decode audio data"
MsgSyntax == "Unexpected token in JSON"

\* The statuses passed to onProgress.
StExtracting == "Extracting audio from video..."
StDecoding == "Decoding audio track..."
StCompressing == "Compressing audio..."
StTranscribing == "Transcribing with Gemini..."
StProcessing == "Processing response..."

\* Results of decodeAudioData that resolve: one frame at 16 kHz, and no
\* frames at 48 kHz.
DecodedAudio ==
  {[sampleRate |-> 16000, channels |-> <<<<Num(Den)>>>>],
   [sampleRate |-> 48000, channels |-> <<<<>>>>]}

\* The segment lists the transcription service answers with.
RawCaption(s, e, t) == [startTime |-> s, endTime |-> e, text |-> t]

RawLists ==
  {<<>>,
   <<RawCaption(0, 1, "a")>>,
   <<RawCaption(0, 1, "a"), RawCaption(1, 2, "b")>>}

\* What the awaited generateContent call does: it rejects, or it resolves
\* with no text, with text that is not JSON, or with a segment list.
Responses ==
  {[kind |-> "reject", raw |-> <<>>], [kind |-> "empty", raw |-> <<>>],
   [kind |-> "malformed", raw |-> <<>>]}
    \cup {[kind |-> "ok", raw |-> l] : l \in RawLists}

\* Text typed into a transcript textarea.
EditTexts == {"x"}

\* ------------------------------------------------------ generateCaptions
\* Variant of CaptionId: the id is built from the clock alone.
CaptionIdClockOnly(index, now) == <<0, now>>

\* id: `cap-${index}-${Date.now()}`, as the pair <<index, Date.now()>>.
CaptionId(index, now) == <<index, now>>

\* rawCaptions.map(...): caption index gets the id of its index and of the
\* clock when it is mapped; the clock reads now for index 0 and now + tick
\* afterwards.
RECURSIVE MapCaptions(_, _, _, _)
MapCaptions(raw, i, now, tick) ==
  IF i > Len(raw) THEN <<>>
  ELSE <<[id |-> CaptionId(i - 1, IF i = 1 THEN now ELSE now + tick),
          startTime |-> raw[i].startTime,
          endTime |-> raw[i].endTime,
          text |-> raw[i].text]>>
       \o MapCaptions(raw, i + 1, now, tick)

\* An invocation of handleGenerate just started on file f.
NewRun(f) ==
  [file |-> f, pc |-> "start", stages |-> <<>>, completed |-> <<>>,
   progress |-> <<>>, audio |-> <<>>, wav |-> <<>>, outcome |-> "pending", err |-> "",
   result |-> <<>>, surfaced |-> 0]

\* onProgress(status) inside run r: the callback of handleGenerate sets
\* progressStatus.
Report(run, status) == [run EXCEPT !.progress = Append(@, status)]

\* A stage of the pipeline is entered.
Enter(run, stage, at) ==
  [run EXCEPT !.stages = Append(@, stage), !.pc = at]

\* A stage of the pipeline returns or resolves.
Complete(run, stage) == [run EXCEPT !.completed = Append(@, stage)]

\* err.message || "Failed to generate captions. Please try again."
ErrorMessage(message) == IF message = "" THEN MsgFallback ELSE message

\* The invocation ends: its locals become unreachable.
Finished(run, outcome) ==
  [run EXCEPT !.pc = "settled", !.outcome = outcome, !.audio = <<>>,
              !.wav = <<>>]

\* Variant of SettleFailed: the statements of the finally block run only
\* after a successful call.
SettleFailedNoFinally(r, run, message) ==
  /\ runs' = [runs EXCEPT ![r] =
                [Finished(run, "failed") EXCEPT !.err = message,
                                                !.surfaced = @ + 1]]
  /\ error' = ErrorMessage(message)
  /\ UNCHANGED <<isProcessing, progressStatus, captions, captionsFile>>

\* The awaited promise rejects with an error of this message: the catch
\* and finally blocks of handleGenerate.
SettleFailed(r, run, message) ==
  /\ runs' = [runs EXCEPT ![r] =
                [Finished(run, "failed") EXCEPT !.err = message,
                                                !.surfaced = @ + 1]]
  /\ error' = ErrorMessage(message)
  /\ isProcessing' = FALSE
  /\ progressStatus' = ""
  /\ UNCHANGED <<captions, captionsFile>>

\* The awaited promise resolves with generated: setCaptions and the finally
\* block of handleGenerate.
SettleOk(r, run, generated) ==
  /\ runs' = [runs EXCEPT ![r] =
                [Finished(run, "ok") EXCEPT !.result = generated]]
  /\ captions' = generated
  /\ captionsFile' = run.file
  /\ isProcessing' = FALSE
  /\ progressStatus' = ""
  /\ UNCHANGED error

\* The Button component: not clickable while disabled or loading.
ButtonEnabled(disabled, isLoading) == ~disabled /\ ~isLoading

\* Variant of handleGenerate: isProcessing is not set when the pipeline
\* starts.
handleGenerateNoFlag(ctx) ==
  /\ videoFile # NoFile
  /\ ButtonEnabled(captions # <<>>, isProcessing)
  /\ Len(runs) < MaxRuns
  /\ LET run == NewRun(videoFile)
     IN  IF ~apiKey
         THEN /\ runs' = Append(runs,
                   [Finished(run, "failed") EXCEPT !.err = MsgApiKey,
                                                   !.surfaced = @ + 1])
              /\ error' = ErrorMessage(MsgApiKey)
              /\ isProcessing' = FALSE
              /\ progressStatus' = ""
         ELSE IF ~ctx
         THEN /\ runs' = Append(runs,
                   [Finished(Report(run, StExtracting), "failed")
                      EXCEPT !.err = MsgExtract, !.surfaced = @ + 1])
              /\ error' = ErrorMessage(MsgExtract)
              /\ isProcessing' = FALSE
              /\ progressStatus' = ""
         ELSE /\ runs' = Append(runs,
                   Enter(Report(run, StExtracting), "read", "reading"))
              /\ error' = Null
              /\ UNCHANGED isProcessing
              /\ progressStatus' = StExtracting
  /\ UNCHANGED <<videoFile, captions, captionsFile, currentTime,
                 currentCaption, apiKey>>
  /\ UNCHANGED encVars

\* handleGenerate up to its first suspension: the API key check of
\* generateCaptions, then extractAudioFromVideo up to videoFile.arrayBuffer().
\* ctx: whether the AudioContext could be constructed.
handleGenerate(ctx) ==
  /\ videoFile # NoFile
  /\ ButtonEnabled(captions # <<>>, isProcessing)
  /\ Len(runs) < MaxRuns
  /\ LET run == NewRun(videoFile)
     IN  IF ~apiKey
         THEN /\ runs' = Append(runs,
                   [Finished(run, "failed") EXCEPT !.err = MsgApiKey,
                                                   !.surfaced = @ + 1])
              /\ error' = ErrorMessage(MsgApiKey)
              /\ isProcessing' = FALSE
              /\ progressStatus' = ""
         ELSE IF ~ctx
         THEN /\ runs' = Append(runs,
                   [Finished(Report(run, StExtracting), "failed")
                      EXCEPT !.err = MsgExtract, !.surfaced = @ + 1])
              /\ error' = ErrorMessage(MsgExtract)
              /\ isProcessing' = FALSE
              /\ progressStatus' = ""
         ELSE /\ runs' = Append(runs,
                   Enter(Report(run, StExtracting), "read", "reading"))
              /\ error' = Null
              /\ isProcessing' = TRUE
              /\ progressStatus' = StExtracting
  /\ UNCHANGED <<videoFile, captions, captionsFile, currentTime,
                 currentCaption, apiKey>>
  /\ UNCHANGED encVars

\* Variant of readDone: a failed read is attempted again.
readDoneRetry(r, ok) ==
  /\ runs[r].pc = "reading"
  /\ IF ok
     THEN /\ runs' = [runs EXCEPT ![r] =
                        Enter(Report(Complete(@, "read"), StDecoding),
                              "decode", "decoding")]
          /\ progressStatus' = StDecoding
     ELSE /\ runs' = [runs EXCEPT ![r] = Enter(@, "read", "reading")]
          /\ UNCHANGED progressStatus
  /\ UNCHANGED <<captions, captionsFile, error, isProcessing>>
  /\ UNCHANGED <<videoFile, currentTime, currentCaption, apiKey>>
  /\ UNCHANGED encVars

\* videoFile.arrayBuffer() settles.
readDone(r, ok) ==
  /\ runs[r].pc = "reading"
  /\ IF ok
     THEN /\ runs' = [runs EXCEPT ![r] =
                        Enter(Report(Complete(@, "read"), StDecoding),
                              "decode", "decoding")]
          /\ progressStatus' = StDecoding
          /\ UNCHANGED <<captions, captionsFile, error, isProcessing>>
     ELSE SettleFailed(r, runs[r], MsgExtract)
  /\ UNCHANGED <<videoFile, currentTime, currentCaption, apiKey>>
  /\ UNCHANGED encVars

\* Variant of decodeDone: the rejection of decodeAudioData reaches the
\* caller as it is, without the catch block of extractAudioFromVideo.
decodeDoneUnwrapped(r, decoded) ==
  /\ runs[r].pc = "decoding"
  /\ IF decoded # <<>>
     THEN /\ runs' = [runs EXCEPT ![r] =
                        [Enter(Complete(Enter(Report(Complete(@, "decode"),
                                                     StCompressing),
                                              "encode", "encoding"),
                                        "encode"),
                               "base64", "encoding")
                           EXCEPT !.audio = decoded,
                                  !.wav = encodeWAV(decoded[1])]]
          /\ progressStatus' = StCompressing
          /\ UNCHANGED <<captions, captionsFile, error, isProcessing>>
     ELSE SettleFailed(r, runs[r], MsgDecode)
  /\ UNCHANGED <<videoFile, currentTime, currentCaption, apiKey>>
  /\ UNCHANGED encVars

\* audioContext.decodeAudioData(arrayBuffer) settles: decoded is <<>> when
\* it rejects, <<audioBuffer>> when it resolves; then encodeWAV and the
\* start of reader.readAsDataURL.
decodeDone(r, decoded) ==
  /\ runs[r].pc = "decoding"
  /\ IF decoded # <<>>
     THEN /\ runs' = [runs EXCEPT ![r] =
                        [Enter(Complete(Enter(Report(Complete(@, "decode"),
                                                     StCompressing),
                                              "encode", "encoding"),
                                        "encode"),
                               "base64", "encoding")
                           EXCEPT !.audio = decoded,
                                  !.wav = encodeWAV(decoded[1])]]
          /\ progressStatus' = StCompressing
          /\ UNCHANGED <<captions, captionsFile, error, isProcessing>>
     ELSE SettleFailed(r, runs[r], MsgExtract)
  /\ UNCHANGED <<videoFile, currentTime, currentCaption, apiKey>>
  /\ UNCHANGED encVars

\* The FileReader finishes: onloadend resolves the promise, or onerror
\* rejects it with the error event; then generateCaptions up to the
\* generateContent call.
base64Done(r, ok) ==
  /\ runs[r].pc = "encoding"
  /\ IF ok
     THEN /\ runs' = [runs EXCEPT ![r] =
                        Enter(Report(Complete(@, "base64"), StTranscribing),
                              "transcribe", "transcribing")]
          /\ progressStatus' = StTranscribing
          /\ UNCHANGED <<captions, captionsFile, error, isProcessing>>
     ELSE SettleFailed(r, runs[r], "")
  /\ UNCHANGED <<videoFile, currentTime, currentCaption, apiKey>>
  /\ UNCHANGED encVars

\* Variant of transcribeDone: the status is reported before the outcome of
\* the call is known.
transcribeDoneReportsFirst(r, resp, now, tick) ==
  /\ runs[r].pc = "transcribing"
  /\ IF resp.kind = "reject"
     THEN SettleFailed(r, Report(runs[r], StProcessing), MsgService)
     ELSE IF resp.kind = "empty"
     THEN SettleFailed(r, Report(Complete(runs[r], "transcribe"), StProcessing),
                       MsgNoResponse)
     ELSE IF resp.kind = "malformed"
     THEN SettleFailed(r, Report(Complete(runs[r], "transcribe"), StProcessing),
                       MsgSyntax)
     ELSE SettleOk(r, Report(Complete(runs[r], "transcribe"), StProcessing),
                   MapCaptions(resp.raw, 1, now, tick))
  /\ UNCHANGED <<videoFile, currentTime, currentCaption, apiKey>>
  /\ UNCHANGED encVars

\* ai.models.generateContent settles; now and tick are the readings of
\* Date.now() while the captions are mapped.
transcribeDone(r, resp, now, tick) ==
  /\ runs[r].pc = "transcribing"
  /\ IF resp.kind = "reject"
     THEN SettleFailed(r, runs[r], MsgService)
     ELSE IF resp.kind = "empty"
     THEN SettleFailed(r, Report(Complete(runs[r], "transcribe"), StProcessing), MsgNoResponse)
     ELSE IF resp.kind = "malformed"
     THEN SettleFailed(r, Report(Complete(runs[r], "transcribe"), StProcessing), MsgSyntax)
     ELSE SettleOk(r, Report(Complete(runs[r], "transcribe"), StProcessing),
                   MapCaptions(resp.raw, 1, now, tick))
  /\ UNCHANGED <<videoFile, currentTime, currentCaption, apiKey>>
  /\ UNCHANGED encVars

\* ------------------------------------------------------------ App handlers
MAX_FILE_SIZE_MB == 500

\* Sizes in bytes of the files a user picks: 1 MB, and one byte over the
\* limit.
FileSizes == {1024 * 1024, MAX_FILE_SIZE_MB * 1024 * 1024 + 1}

\* handleFileChange for a picked file of the given size, with the effect of
\* VideoPlayer on the change of src.  The picker opens from the upload
\* area, which is rendered while no file is selected.
handleFileChange(file, size) ==
  /\ videoFile = NoFile
  /\ IF size > MAX_FILE_SIZE_MB * 1024 * 1024
     THEN /\ error' = MsgTooLarge
          /\ UNCHANGED <<videoFile, captions, captionsFile, currentCaption>>
     ELSE /\ videoFile' = file
          /\ captions' = <<>>
          /\ captionsFile' = NoFile
          /\ error' = Null
          /\ currentCaption' = <<>>
  /\ UNCHANGED <<isProcessing, progressStatus, currentTime, apiKey, runs>>
  /\ UNCHANGED encVars

\* The Change button, with the effect of VideoPlayer on the change of src.
change ==
  /\ videoFile # NoFile
  /\ videoFile' = NoFile
  /\ captions' = <<>>
  /\ captionsFile' = NoFile
  /\ currentCaption' = <<>>
  /\ UNCHANGED <<isProcessing, progressStatus, error, currentTime, apiKey,
                 runs>>
  /\ UNCHANGED encVars

\* The close button of the error banner.
dismissError ==
  /\ error # Null
  /\ error' = Null
  /\ UNCHANGED <<videoFile, captions, captionsFile, isProcessing,
                 progressStatus, currentTime, currentCaption, apiKey, runs>>
  /\ UNCHANGED encVars

\* prev.map(c => c.id === id ? { ...c, text: newText } : c)
WithText(prev, id, newText) ==
  [k \in DOMAIN prev |->
     IF prev[k].id = id THEN [prev[k] EXCEPT !.text = newText] ELSE prev[k]]

\* prev.filter(c => c.id !== id)
RECURSIVE Without(_, _)
Without(prev, id) ==
  IF prev = <<>> THEN <<>>
  ELSE IF Head(prev).id = id THEN Without(Tail(prev), id)
  ELSE <<Head(prev)>> \o Without(Tail(prev), id)

\* handleTextChange of CaptionEditor, from the textarea of caption k.
handleTextChange(k, newText) ==
  /\ k \in DOMAIN captions
  /\ captions' = WithText(captions, captions[k].id, newText)
  /\ UNCHANGED <<videoFile, captionsFile, isProcessing, progressStatus,
                 error, currentTime, currentCaption, apiKey, runs>>
  /\ UNCHANGED encVars

\* handleDelete of CaptionEditor, from the delete button of caption k.
handleDelete(k) ==
  /\ k \in DOMAIN captions
  /\ captions' = Without(captions, captions[k].id)
  /\ UNCHANGED <<videoFile, captionsFile, isProcessing, progressStatus,
                 error, currentTime, currentCaption, apiKey, runs>>
  /\ UNCHANGED encVars

\* captions.find(c => time >= c.startTime && time <= c.endTime): <<>> for
\* undefined.
RECURSIVE Find(_, _)
Find(cs, time) ==
  IF cs = <<>> THEN <<>>
  ELSE IF time >= Head(cs).startTime /\ time <= Head(cs).endTime
  THEN <<Head(cs)>>
  ELSE Find(Tail(cs), time)

\* c?.id: <<>> for undefined.
IdOf(c) == IF c = <<>> THEN <<>> ELSE c[1].id

\* handleTimeUpdate of VideoPlayer, for a video at the given time; the
\* video element is rendered while src is set.
handleTimeUpdate(time) ==
  /\ videoFile # NoFile
  /\ currentTime' = time
  /\ LET active == Find(captions, time)
     IN  IF IdOf(active) # IdOf(currentCaption)
         THEN currentCaption' = active
         ELSE UNCHANGED currentCaption
  /\ UNCHANGED <<videoFile, captions, captionsFile, isProcessing,
                 progressStatus, error, apiKey, runs>>
  /\ UNCHANGED encVars

\* ----------------------------------------------------------- state machine
AppInit ==
  /\ audioBuffer = [sampleRate |-> sampleRate, channels |-> <<<<>>>>]
  /\ wavBlob = <<>>
  /\ pc = "app"
  /\ AppMounted
  /\ apiKey \in BOOLEAN

Generate == \E ctx \in BOOLEAN : handleGenerate(ctx)

ReadDone == \E r \in DOMAIN runs, ok \in BOOLEAN : readDone(r, ok)

DecodeDone ==
  \E r \in DOMAIN runs, decoded \in {<<>>} \cup {<<a>> : a \in DecodedAudio} :
    decodeDone(r, decoded)

Base64Done == \E r \in DOMAIN runs, ok \in BOOLEAN : base64Done(r, ok)

TranscribeDone ==
  \E r \in DOMAIN runs, resp \in Responses, now \in {1}, tick \in {0, 1} :
    transcribeDone(r, resp, now, tick)

FileChange ==
  \E file \in Files, size \in FileSizes : handleFileChange(file, size)

TextChange ==
  \E k \in DOMAIN captions, newText \in EditTexts :
    handleTextChange(k, newText)

Delete == \E k \in DOMAIN captions : handleDelete(k)

TimeUpdate == \E time \in 0..MaxTime : handleTimeUpdate(time)

AppNext ==
  \/ Generate
  \/ ReadDone
  \/ DecodeDone
  \/ Base64Done
  \/ TranscribeDone
  \/ FileChange
  \/ change
  \/ dismissError
  \/ TextChange
  \/ Delete
  \/ TimeUpdate

AppSpec == AppInit /\ [][AppNext]_vars

\* ------------------------------------------------- reading a blob's bytes
\* The fields of a blob as a reader of the file decodes them.
U16At(b, off) == b[off + 1] + 256 * b[off + 2]

U32At(b, off) == U16At(b, off) + 65536 * U16At(b, off + 2)

S16At(b, off) ==
  IF U16At(b, off) >= 32768 THEN U16At(b, off) - 65536 ELSE U16At(b, off)

\* Number of whole 16-bit samples after the header, and output sample i.
OutLength == (Len(wavBlob) - 44) \div 2

OutSample(i) == S16At(wavBlob, 44 + 2 * i)

Frames == Len(audioBuffer.channels[1])

SourceSample(j) == audioBuffer.channels[1][j + 1]

\* o is p / q rounded to the nearest integer, ties upward (q > 0).
IsRound(o, p, q) == 2 * o * q <= 2 * p + q /\ 2 * p + q < 2 * (o + 1) * q

Encoded == pc = "encoded"

\* ---------------------------------------------------------------------- C1
\* C1: the header's declared sizes match the payload: the uint32 at bytes
\* 4-7 is totalBytes - 8, the uint32 at bytes 40-43 is the data byte length
\* 2 * newLength, and totalBytes = 44 + data byte length.
C1_HeaderSizes ==
  Encoded =>
    /\ Len(wavBlob) = 44 + 2 * NewLength(audioBuffer)
    /\ U32At(wavBlob, 4) = Len(wavBlob) - 8
    /\ U32At(wavBlob, 4) = 36 + 2 * NewLength(audioBuffer)
    /\ U32At(wavBlob, 40) = Len(wavBlob) - 44

C1_Witness ==
  /\ Encoded
  /\ audioBuffer.sampleRate = 32000
  /\ Frames = 3
  /\ Len(wavBlob) = 48

\* ---------------------------------------------------------------------- C2
\* C2: an output index whose source offset round(i * ratio) is at or beyond
\* the source frame count holds 0, and the call completes.
C2_OutOfRangeIsSilence ==
  Encoded =>
    \A i \in 0..(OutLength - 1) :
      (2 * i * audioBuffer.sampleRate + 16000 >= 2 * Frames * 16000)
        => OutSample(i) = 0

C2_Witness ==
  /\ Encoded
  /\ audioBuffer.sampleRate = 8000
  /\ Frames = 3
  /\ SourceSample(2) = Num(Den)
  /\ OutLength = 6
  /\ IsRound(3, 5 * 8000, 16000)
  /\ OutSample(4) = 32767
  /\ OutSample(5) = 0

\* ---------------------------------------------------------------------- C3
\* The source sample k / Den clamped to [-1, 1], as a numerator.
ClampedNum(k) == IF k < -Den THEN -Den ELSE IF k > Den THEN Den ELSE k

\* s is c / Den times scale with the fraction dropped toward zero.
TruncatedTowardZero(s, c, scale) ==
  IF c < 0 THEN c * scale - s * Den > -Den /\ c * scale - s * Den <= 0
  ELSE c * scale - s * Den >= 0 /\ c * scale - s * Den < Den

\* s is the largest integer not above c / Den times scale.
TruncatedDownward(s, c, scale) ==
  c * scale - s * Den >= 0 /\ c * scale - s * Den < Den

\* The output samples whose source offset is in range and holds a number,
\* as pairs <<i, source numerator>>.
NumericSamples ==
  {<<i, SourceSample(Offset(audioBuffer, i))>> :
     i \in {j \in 0..(OutLength - 1) :
              /\ Offset(audioBuffer, j) < Frames
              /\ SourceSample(Offset(audioBuffer, j)) # NaN}}

\* C3 (as amended): a sample is clamped to [-1, 1]; a negative value is
\* multiplied by 32768, a non-negative value by 32767, and in both cases the
\* fraction is dropped toward zero; the stored value is that integer, within
\* [-32768, 32767], for every input value.
C3_Quantization ==
  Encoded =>
    \A e \in NumericSamples :
      LET c == ClampedNum(e[2])
          s == OutSample(e[1])
      IN  /\ TruncatedTowardZero(s, c, IF c < 0 THEN 32768 ELSE 32767)
          /\ s >= -32768 /\ s <= 32767

\* C3 as stated: a negative value is truncated toward the more negative
\* integer.
C3_Original ==
  Encoded =>
    \A e \in NumericSamples :
      LET c == ClampedNum(e[2])
          s == OutSample(e[1])
      IN  IF c < 0 THEN TruncatedDownward(s, c, 32768)
          ELSE TruncatedDownward(s, c, 32767)

C3_Witness ==
  /\ Encoded
  /\ audioBuffer.sampleRate = 16000
  /\ Frames = 3
  /\ SourceSample(0) = Num(-3)
  /\ SourceSample(1) = Num(-2 * Den)
  /\ SourceSample(2) = Num(3 * (Den \div 2))
  /\ OutSample(0) = -1
  /\ OutSample(1) = -32768
  /\ OutSample(2) = 32767

\* ---------------------------------------------------------------------- C4
\* C4: an input sample 1.0 is encoded as 32767, -1.0 as -32768, 0.0 as 0.
C4_Endpoints ==
  Encoded =>
    \A e \in NumericSamples :
      /\ e[2] = Den => OutSample(e[1]) = 32767
      /\ e[2] = -Den => OutSample(e[1]) = -32768
      /\ e[2] = 0 => OutSample(e[1]) = 0

C4_Witness ==
  /\ Encoded
  /\ audioBuffer.sampleRate = 16000
  /\ audioBuffer.channels[1] = <<Num(Den), Num(-Den), Num(0)>>
  /\ OutLength = 3
  /\ OutSample(0) = 32767
  /\ OutSample(1) = -32768
  /\ OutSample(2) = 0

\* ---------------------------------------------------------------------- C5
\* C5: at a source rate of 16000 the output has as many samples as the
\* source has frames, and output sample i is the quantization of source
\* sample i of channel 0.
C5_IdentityAt16000 ==
  (Encoded /\ audioBuffer.sampleRate = 16000) =>
    /\ OutLength = Frames
    /\ Len(wavBlob) = 44 + 2 * Frames
    /\ \A i \in 0..(Frames - 1) : OutSample(i) = Quantize(SourceSample(i))

C5_Witness ==
  /\ Encoded
  /\ audioBuffer.sampleRate = 16000
  /\ Len(audioBuffer.channels) = 2
  /\ audioBuffer.channels[1] = <<Num(0), Num(Den \div 2), Num(Den)>>
  /\ OutSample(0) = 0
  /\ OutSample(1) = 16383
  /\ OutSample(2) = 32767

\* ---------------------------------------------------------------------- C6
\* C6: for zero frames, at any rate, the blob is exactly 44 bytes, with 36
\* in bytes 4-7 and 0 in bytes 40-43.
C6_EmptyInput ==
  (Encoded /\ Frames = 0) =>
    /\ Len(wavBlob) = 44
    /\ U32At(wavBlob, 4) = 36
    /\ U32At(wavBlob, 40) = 0

C6_Witness ==
  /\ Encoded
  /\ Frames = 0
  /\ audioBuffer.sampleRate = 48000
  /\ Len(wavBlob) = 44

\* ---------------------------------------------------------------------- C7
\* The decoded audio with the same rate and channel 0 as the current one and
\* the channels of others after it.
WithOtherChannels(others) ==
  [audioBuffer EXCEPT !.channels = <<audioBuffer.channels[1]>> \o others]

\* Lists of further channels of the current frame count.
OtherChannelLists ==
  {<<>>}
    \cup {<<Fill(Frames, x)>> : x \in FillValues \cup {NaN}}
    \cup {<<Fill(Frames, x), Fill(Frames, y)>> :
            x \in FillValues, y \in FillValues}

\* C7: only channel 0 influences the output: every input with the same
\* sample rate and the same channel 0, whatever its other channels, is
\* encoded to the same bytes as the current input.
C7_OnlyChannelZero ==
  Encoded =>
    \A other \in {WithOtherChannels(others) : others \in OtherChannelLists} :
      encodeWAV(other) = wavBlob

C7_Witness ==
  /\ Encoded
  /\ audioBuffer.sampleRate = 16000
  /\ Len(audioBuffer.channels) = 2
  /\ audioBuffer.channels[1] = <<Num(0), Num(0)>>
  /\ audioBuffer.channels[2] = <<Num(Den), Num(Den)>>
  /\ OutSample(0) = 0
  /\ OutSample(1) = 0

\* ---------------------------------------------------------------------- C8
\* C8: the output has round(frames / ratio) samples, ratio = rate / 16000,
\* and output sample i is the quantization of the channel-0 sample at index
\* round(i * ratio) whenever that index is in range.
C8_NearestNeighbour ==
  Encoded =>
    /\ Len(wavBlob) = 44 + 2 * OutLength
    /\ IsRound(OutLength, Frames * 16000, audioBuffer.sampleRate)
    /\ \A i \in 0..(OutLength - 1) :
         \E o \in {(i * audioBuffer.sampleRate) \div 16000,
                   (i * audioBuffer.sampleRate) \div 16000 + 1} :
           /\ IsRound(o, i * audioBuffer.sampleRate, 16000)
           /\ o < Frames => OutSample(i) = Quantize(SourceSample(o))

C8_Witness ==
  /\ Encoded
  /\ audioBuffer.sampleRate = 24000
  /\ audioBuffer.channels[1] = <<Num(0), Num(Den), Num(-Den)>>
  /\ OutLength = 2
  /\ IsRound(2, 1 * 24000, 16000)
  /\ OutSample(0) = 0
  /\ OutSample(1) = -32768

\* ---------------------------------------------------------------------- C9
\* C9: scenario A (one channel, 48000 Hz, 48000 samples of 0.5) gives 16000
\* samples, each 16383, a data length of 32000 and a blob of 32044 bytes.
C9_ScenarioA ==
  (Encoded /\ audioBuffer = ScenarioA) =>
    /\ Len(wavBlob) = 32044
    /\ OutLength = 16000
    /\ U32At(wavBlob, 40) = 32000
    /\ \A i \in 0..15999 : OutSample(i) = 16383

C9_Witness ==
  /\ Encoded
  /\ audioBuffer.sampleRate = 48000
  /\ Len(audioBuffer.channels) = 1
  /\ Frames = 48000
  /\ \A j \in 0..47999 : SourceSample(j) = Num(Den \div 2)
  /\ Len(wavBlob) > 44

\* --------------------------------------------------------------------- C10
\* C10: the fixed header fields do not depend on the input: 'RIFF' at 0,
\* 'WAVE' at 8, 'fmt ' at 12, 'data' at 36, fmt chunk size 16, format code
\* 1, channel count 1, sample rate 16000, byte rate 32000, block align 2,
\* bits per sample 16, all little-endian, and the samples follow at byte 44
\* as contiguous little-endian 16-bit values.
C10_FixedHeader ==
  Encoded =>
    /\ SubSeq(wavBlob, 1, 4) = <<82, 73, 70, 70>>
    /\ SubSeq(wavBlob, 9, 16) = <<87, 65, 86, 69, 102, 109, 116, 32>>
    /\ SubSeq(wavBlob, 17, 20) = <<16, 0, 0, 0>>
    /\ SubSeq(wavBlob, 21, 22) = <<1, 0>>
    /\ SubSeq(wavBlob, 23, 24) = <<1, 0>>
    /\ SubSeq(wavBlob, 25, 28) = <<128, 62, 0, 0>>
    /\ U32At(wavBlob, 24) = 16000
    /\ SubSeq(wavBlob, 29, 32) = <<0, 125, 0, 0>>
    /\ U32At(wavBlob, 28) = 32000
    /\ SubSeq(wavBlob, 33, 34) = <<2, 0>>
    /\ SubSeq(wavBlob, 35, 36) = <<16, 0>>
    /\ SubSeq(wavBlob, 37, 40) = <<100, 97, 116, 97>>
    /\ LET resultData == ResultData(audioBuffer)
       IN  /\ Len(wavBlob) = 44 + 2 * Len(resultData)
           /\ \A k \in 1..Len(resultData) :
                /\ wavBlob[44 + 2 * k - 1] = (resultData[k] % 65536) % 256
                /\ wavBlob[44 + 2 * k] = (resultData[k] % 65536) \div 256

C10_Witness ==
  /\ Encoded
  /\ audioBuffer.sampleRate = 44100
  /\ Frames = 3
  /\ SourceSample(0) = Num(Den \div 2)
  /\ Len(wavBlob) = 46
  /\ wavBlob[45] = 255
  /\ wavBlob[46] = 63

\* ---------------------------------------------------------- runs, observed
\* Run r settles in this step.
JustSettled(r) ==
  /\ r \in DOMAIN runs'
  /\ runs'[r].pc = "settled"
  /\ r \in DOMAIN runs => runs[r].pc # "settled"

\* The elements of a sequence.
Range(q) == {q[k] : k \in DOMAIN q}

\* --------------------------------------------------------------------- C11
\* C11: when decodeAudioData rejects, the run fails with the message naming
\* a corrupt file or an unsupported format, returns nothing, never enters
\* the encode, base64 or transcribe stage, and leaves the caption list as
\* it was.
C11_DecodeRejected ==
  [][\A r \in DOMAIN runs :
       (runs[r].pc = "decoding" /\ runs'[r].pc = "settled") =>
         /\ runs'[r].outcome = "failed"
         /\ runs'[r].err =
              "Failed to extract audio. The file might be corrupt or the format is unsupported."
         /\ error' = runs'[r].err
         /\ runs'[r].result = <<>>
         /\ runs'[r].wav = <<>>
         /\ Range(runs'[r].stages) \cap {"encode", "base64", "transcribe"} = {}
         /\ runs'[r].progress = runs[r].progress
         /\ captions' = captions]_vars

C11_Witness ==
  /\ Len(runs) = 1
  /\ runs[1].pc = "settled"
  /\ runs[1].outcome = "failed"
  /\ runs[1].stages = <<"read", "decode">>
  /\ runs[1].completed = <<"read">>
  /\ error = MsgExtract
  /\ captions = <<>>
  /\ isProcessing = FALSE

\* --------------------------------------------------------------------- C12
\* C12: when videoFile.arrayBuffer() rejects, the caller receives the read
\* error itself, which differs from what it receives for a decode error,
\* and the decode, encode and transcribe stages do not run.
C12_ReadErrorVerbatim ==
  [][\A r \in DOMAIN runs :
       (runs[r].pc = "reading" /\ runs'[r].pc = "settled") =>
         /\ runs'[r].outcome = "failed"
         /\ runs'[r].err = MsgRead
         /\ runs'[r].err # MsgExtract
         /\ Range(runs'[r].stages)
              \cap {"decode", "encode", "base64", "transcribe"} = {}]_vars

\* --------------------------------------------------------------------- C13
\* The statuses in the order of the stages.
ProgressOrder ==
  <<"Extracting audio from video...", "Decoding audio track...",
    "Compressing audio...", "Transcribing with Gemini...",
    "Processing response...">>

\* The stages that have completed before status number k is due.
StagesBefore(k) ==
  IF k = 1 THEN {}
  ELSE IF k = 2 THEN {"read"}
  ELSE IF k = 3 THEN {"read", "decode"}
  ELSE IF k = 4 THEN {"read", "decode", "encode", "base64"}
  ELSE {"read", "decode", "encode", "base64", "transcribe"}

\* C13: what a run has reported is an initial part of the fixed order
\* (each status at most once, in order), status k is reported only when
\* every earlier stage has completed, and a run that has failed reports
\* nothing further.
C13_ProgressOrder ==
  /\ [](\A r \in DOMAIN runs :
          /\ Len(runs[r].progress) <= 5
          /\ runs[r].progress = SubSeq(ProgressOrder, 1, Len(runs[r].progress))
          /\ \A k \in 1..Len(runs[r].progress) :
               StagesBefore(k) \subseteq Range(runs[r].completed))
  /\ [][\A r \in DOMAIN runs :
          runs[r].outcome = "failed" =>
            runs'[r].progress = runs[r].progress]_vars

C13_Witness ==
  /\ Len(runs) = 1
  /\ runs[1].outcome = "ok"
  /\ Len(runs[1].progress) = 5
  /\ runs[1].progress[5] = StProcessing
  /\ Len(runs[1].completed) = 5

\* --------------------------------------------------------------------- C14
\* The invocations of generateCaptions that have not settled.
InFlight == {r \in DOMAIN runs : runs[r].pc # "settled"}

\* C14: at most one generateCaptions invocation is in flight at any time.
C14_OneInFlight == Cardinality(InFlight) <= 1

C14_Witness ==
  /\ Len(runs) = 2
  /\ runs[1].pc = "settled"
  /\ runs[1].file = "a.mp4"
  /\ runs[2].pc = "decoding"
  /\ runs[2].file = "b.mp4"
  /\ videoFile = "a.mp4"
  /\ isProcessing

\* --------------------------------------------------------------------- C15
\* C15: each stage of a request is attempted at most once; a failure is
\* delivered to the caller exactly once, as a rejection; and after it no
\* further stage of that request runs.
C15_NoRetries ==
  /\ [](\A r \in DOMAIN runs :
          /\ \A i, j \in DOMAIN runs[r].stages :
               runs[r].stages[i] = runs[r].stages[j] => i = j
          /\ runs[r].outcome = "failed" =>
               runs[r].surfaced = 1 /\ runs[r].pc = "settled"
          /\ runs[r].outcome # "failed" => runs[r].surfaced = 0)
  /\ [][\A r \in DOMAIN runs :
          runs[r].outcome = "failed" => runs'[r] = runs[r]]_vars

C15_Witness ==
  /\ Len(runs) = 2
  /\ runs[1].outcome = "failed"
  /\ runs[1].stages = <<"read">>
  /\ runs[1].surfaced = 1
  /\ runs[2].outcome = "failed"
  /\ runs[2].stages = <<"read", "decode", "encode", "base64", "transcribe">>
  /\ runs[2].surfaced = 1

\* --------------------------------------------------------------------- C16
\* C16: the captions in the caption list have pairwise distinct ids.
C16_UniqueIds ==
  \A i, j \in DOMAIN captions : captions[i].id = captions[j].id => i = j

C16_Witness ==
  /\ Len(runs) = 2
  /\ runs[1].outcome = "ok"
  /\ runs[2].outcome = "ok"
  /\ Len(captions) = 2
  /\ captions[1].id[2] = captions[2].id[2]
  /\ captions[1].text = "a"
  /\ captions[2].text = "x"

\* --------------------------------------------------------------------- C17
\* C17: a non-empty caption list was generated from the file now selected.
C17_CaptionsOfSelectedFile == captions # <<>> => captionsFile = videoFile

\* --------------------------------------------------------------------- C18
\* C18: a caption shown by the overlay is in the caption list, with the
\* same id and the same text.
C18_OverlayInList ==
  currentCaption # <<>> =>
    \E k \in DOMAIN captions :
      /\ captions[k].id = currentCaption[1].id
      /\ captions[k].text = currentCaption[1].text

\* --------------------------------------------------------------------- C19
\* C19: when an invocation of handleGenerate settles, isProcessing is false
\* and progressStatus is empty; after a failure error is set and the
\* caption list is as before; after a success the caption list is what the
\* invocation returned.
C19_Settled ==
  [][\A r \in DOMAIN runs' :
       JustSettled(r) =>
         /\ isProcessing' = FALSE
         /\ progressStatus' = ""
         /\ runs'[r].outcome \in {"ok", "failed"}
         /\ runs'[r].outcome = "failed" =>
              error' # "null" /\ error' # "" /\ captions' = captions
         /\ runs'[r].outcome = "ok" => captions' = runs'[r].result]_vars

C19_Witness ==
  /\ Len(runs) = 2
  /\ runs[1].outcome = "failed"
  /\ runs[1].err = MsgNoResponse
  /\ runs[2].outcome = "failed"
  /\ runs[2].err = ""
  /\ error = MsgFallback
  /\ isProcessing = FALSE
  /\ progressStatus = ""
  /\ captions = <<>>

====
